---- MODULE Spec2Model ----
(***************************************************************************)
(* Model of src/src/twentyonestep/protocol.py: the MDStep stage executor   *)
(* and the TwentyOneStepProtocol scheduler, run against an OpenMM          *)
(* Simulation whose observable state is the integrator's target            *)
(* temperature and step size, the velocities' temperature, the system's    *)
(* force list, the context's compiled copy of it and the step counter.     *)
(*                                                                         *)
(* Values carry their Python type: isinstance(x, T) is x.type = T.         *)
(* Quantities are fixed point: temperatures in kelvin, times in            *)
(* femtoseconds, pressures in 1/100 bar, so that the fractions 0.02, 0.6,  *)
(* 0.5, 0.1 and 0.01 of a whole number of bar are exact.                   *)
(***************************************************************************)
EXTENDS Integers, Sequences, FiniteSets, TLC

VARIABLES
    forces,          \* simulation.system.getForces(), in order
    contextForces,   \* the forces the context was last (re)initialized with
    temperature,     \* integrator target temperature (kelvin)
    velocities,      \* temperature the velocities were last drawn at (kelvin)
    currentStep,     \* simulation.currentStep
    stepSize,        \* integrator.getStepSize() (femtoseconds)
    fault,           \* the engine call that raises next, or NoFault
    constructed,     \* a TwentyOneStepProtocol object exists
    max_pressure,    \* constructor argument of that object
    max_temperature, \* constructor argument of that object
    schedule,        \* self.schedule of that object
    pc,              \* position of the call in progress, "idle" when none
    caller,          \* "protocol": stage run by TwentyOneStepProtocol.run; "user": alone
    i,               \* index of the schedule entry the for loop is at (1-based)
    step,            \* the MDStep object in hand
    frequency,       \* the frequency argument of the call in progress
    result,          \* outcome of the last finished call
    failedAt,        \* stage at which the current protocol run aborted, "" when none
    calls,           \* number of calls made so far (protocol run or MDStep)
    runs,            \* number of protocol runs that entered the for loop
    op,              \* the last call made: "__init__", "run", "MDStep" or "MDStep.run"
    args,            \* the arguments of that call
    lifecycle,       \* scheduler state: Constructed, Running, Completed, Failed
    tempCalls,       \* stage names of the setTemperature calls of the current protocol run
    stageOps         \* engine calls made so far by the stage in hand, in order

vars == <<forces, contextForces, temperature, velocities, currentStep, stepSize,
          fault, constructed, max_pressure, max_temperature, schedule, pc, caller,
          i, step, frequency, result, failedAt, calls, runs, op, args, lifecycle,
          tempCalls, stageOps>>

ctx == <<forces, contextForces, temperature, velocities, currentStep, stepSize>>

----------------------------------------------------------------------------
(* Units (openmm.unit), as fixed-point scales: kelvin, femtoseconds per    *)
(* picosecond, hundredths of a bar per bar.                                *)
kelvin == 1
picosecond == 1000
bar == 100

(* Bounds of the model. *)
MaxCalls == 2

----------------------------------------------------------------------------
(* Typed values. *)
Quantity(v, dim) == [type |-> "Quantity", value |-> v, unit |-> dim]
Number(t, v) == [type |-> t, value |-> v, unit |-> ""]
None == [type |-> "NoneType", value |-> 0, unit |-> ""]
SimulationObj == [type |-> "Simulation", value |-> 0, unit |-> ""]
Str(s) == [type |-> "str", value |-> 0, unit |-> s]

isinstance(x, t) == x.type = t

(* A force of the system: a MonteCarloBarostat with its three parameters,  *)
(* or a force of another class, told apart by id.                          *)
MonteCarloBarostat(p, t, f) ==
    [class |-> "MonteCarloBarostat", id |-> 0, pressure |-> p, temperature |-> t, frequency |-> f]
OtherForce(n) ==
    [class |-> "Force", id |-> n, pressure |-> None, temperature |-> None, frequency |-> None]

IsBarostat(force) == force.class = "MonteCarloBarostat"

RECURSIVE CountBarostats(_)
CountBarostats(fs) ==
    IF fs = <<>> THEN 0
    ELSE (IF IsBarostat(Head(fs)) THEN 1 ELSE 0) + CountBarostats(Tail(fs))

RECURSIVE OtherForces(_)
OtherForces(fs) ==
    IF fs = <<>> THEN <<>>
    ELSE (IF IsBarostat(Head(fs)) THEN <<>> ELSE <<Head(fs)>>) \o OtherForces(Tail(fs))

----------------------------------------------------------------------------
(* int() alone: the quotient truncated. *)
Round_truncate(n, d) == n \div d

(* Python's round() on the quotient n/d of two positive integers: to the   *)
(* nearest integer, a tie going to the even one.                           *)
Round(n, d) ==
    LET q == n \div d
        r == n % d
    IN  IF 2 * r < d THEN q
        ELSE IF 2 * r > d THEN q + 1
        ELSE IF q % 2 = 0 THEN q ELSE q + 1

(* removeForce taking the index one too far. *)
RemoveAt_next(fs, idx) == SubSeq(fs, 1, idx) \o SubSeq(fs, idx + 2, Len(fs))

(* System.removeForce(index): raises when the index is out of range. *)
RemoveAt(fs, idx) == SubSeq(fs, 1, idx - 1) \o SubSeq(fs, idx + 1, Len(fs))

(* The loop of _set_barostat: it walks a snapshot of the force list and    *)
(* removes from the live list at the snapshot's index.  k is the 1-based   *)
(* position in the snapshot.  The result is the live list and whether      *)
(* removeForce raised.                                                     *)
RECURSIVE RemoveLoop(_, _, _)
RemoveLoop(snapshot, live, k) ==
    IF k > Len(snapshot) THEN [forces |-> live, raised |-> FALSE]
    ELSE IF IsBarostat(snapshot[k])
         THEN IF k > Len(live) THEN [forces |-> live, raised |-> TRUE]
              ELSE RemoveLoop(snapshot, RemoveAt(live, k), k + 1)
         ELSE RemoveLoop(snapshot, live, k + 1)

(* _set_barostat without its removal loop: the new barostat is added next  *)
(* to the old one.                                                         *)
set_barostat_keep(fs, s, f) ==
    IF s.pressure # None
    THEN [forces |-> Append(fs, MonteCarloBarostat(s.pressure, s.temperature, f)),
          raised |-> FALSE]
    ELSE [forces |-> fs, raised |-> FALSE]

(* _set_barostat that touches the list only when the stage has a pressure: *)
(* a stage without one keeps the barostat of the stage before.             *)
set_barostat_guarded(fs, s, f) ==
    IF s.pressure = None
    THEN [forces |-> fs, raised |-> FALSE]
    ELSE LET removed == RemoveLoop(fs, fs, 1)
         IN  IF removed.raised THEN removed
             ELSE [forces |-> Append(removed.forces,
                                     MonteCarloBarostat(s.pressure, s.temperature, f)),
                   raised |-> FALSE]

(* MDStep._set_barostat(frequency) on the force list fs, for the step s. *)
set_barostat(fs, s, f) ==
    LET removed == RemoveLoop(fs, fs, 1)
    IN  IF removed.raised THEN removed
        ELSE IF s.pressure # None
             THEN [forces |-> Append(removed.forces,
                                     MonteCarloBarostat(s.pressure, s.temperature, f)),
                   raised |-> FALSE]
             ELSE removed

----------------------------------------------------------------------------
(* MDStep.__init__: the four type checks in the code's order, then the     *)
(* fields and the step count read from the integrator's current step size. *)
NoStep == [error |-> "none", temperature |-> None, pressure |-> None, time |-> None,
           name |-> "", steps |-> 0]

(* MDStep.__init__ whose first check looks at time only. *)
MDStep_unchecked(simulation, temp, pressure, time, name, timestep) ==
    IF ~isinstance(time, "Quantity")
        THEN [NoStep EXCEPT !.error = "TypeError"]
    ELSE IF ~isinstance(simulation, "Simulation")
        THEN [NoStep EXCEPT !.error = "TypeError"]
    ELSE IF pressure # None /\ ~isinstance(pressure, "Quantity")
        THEN [NoStep EXCEPT !.error = "TypeError"]
    ELSE IF ~isinstance(name, "str")
        THEN [NoStep EXCEPT !.error = "TypeError"]
    ELSE [error |-> "none", temperature |-> temp, pressure |-> pressure, time |-> time,
          name |-> name.unit, steps |-> Round(time.value, timestep)]

MDStep(simulation, temp, pressure, time, name, timestep) ==
    IF ~isinstance(temp, "Quantity") \/ ~isinstance(time, "Quantity")
        THEN [NoStep EXCEPT !.error = "TypeError"]
    ELSE IF ~isinstance(simulation, "Simulation")
        THEN [NoStep EXCEPT !.error = "TypeError"]
    ELSE IF pressure # None /\ ~isinstance(pressure, "Quantity")
        THEN [NoStep EXCEPT !.error = "TypeError"]
    ELSE IF ~isinstance(name, "str")
        THEN [NoStep EXCEPT !.error = "TypeError"]
    ELSE [error |-> "none", temperature |-> temp, pressure |-> pressure, time |-> time,
          name |-> name.unit, steps |-> Round(time.value, timestep)]

----------------------------------------------------------------------------
(* The table with the fractions of md6 and md12 exchanged. *)
Times_swapped(q, hundredths) ==
    [q EXCEPT !.value = (q.value * (IF hundredths = 60 THEN 50
                                    ELSE IF hundredths = 50 THEN 60
                                    ELSE hundredths)) \div 100]

(* The fraction taken with integer arithmetic: every fraction below 1 is 0. *)
Times_floor(q, hundredths) == [q EXCEPT !.value = q.value * (hundredths \div 100)]

(* max_pressure * fraction, the fraction given in hundredths. *)
Times(q, hundredths) == [q EXCEPT !.value = (q.value * hundredths) \div 100]

Stage(temp, pressure, time, name) ==
    [temperature |-> temp, pressure |-> pressure, time |-> time, name |-> Str(name)]

(* TwentyOneStepProtocol._generate_schedule(max_pressure, max_temperature) *)
generate_schedule(maxP, maxT) ==
    LET T300 == Quantity(300 * kelvin, "temperature")
        ps(n) == Quantity(n * picosecond, "time")
    IN  << Stage(maxT, None, ps(50), "md1"),
           Stage(T300, None, ps(50), "md2"),
           Stage(T300, Times(maxP, 2), ps(50), "md3"),
           Stage(maxT, None, ps(50), "md4"),
           Stage(T300, None, ps(100), "md5"),
           Stage(T300, Times(maxP, 60), ps(50), "md6"),
           Stage(maxT, None, ps(50), "md7"),
           Stage(T300, None, ps(100), "md8"),
           Stage(T300, maxP, ps(50), "md9"),
           Stage(maxT, None, ps(50), "md10"),
           Stage(T300, None, ps(100), "md11"),
           Stage(T300, Times(maxP, 50), ps(5), "md12"),
           Stage(maxT, None, ps(5), "md13"),
           Stage(T300, None, ps(10), "md14"),
           Stage(T300, Times(maxP, 10), ps(5), "md15"),
           Stage(maxT, None, ps(5), "md16"),
           Stage(T300, None, ps(10), "md17"),
           Stage(T300, Times(maxP, 1), ps(5), "md18"),
           Stage(maxT, None, ps(5), "md19"),
           Stage(T300, None, ps(10), "md20"),
           Stage(T300, Quantity(1 * bar, "pressure"), ps(800), "md21") >>

(* The default of _generate_schedule's max_temperature parameter. *)
DefaultMaxTemperature == Quantity(600 * kelvin, "temperature")

(* __init__ without the call of _generate_schedule: the schedule stays []. *)
ProtocolInit_empty(simulation, maxP, maxT) ==
    IF ~isinstance(simulation, "Simulation") THEN [error |-> "TypeError", schedule |-> <<>>]
    ELSE IF ~isinstance(maxP, "Quantity") THEN [error |-> "TypeError", schedule |-> <<>>]
    ELSE IF ~isinstance(maxT, "Quantity") THEN [error |-> "TypeError", schedule |-> <<>>]
    ELSE [error |-> "none", schedule |-> <<>>]

(* TwentyOneStepProtocol.__init__: three type checks, then the schedule.   *)
(* The constructor calls _generate_schedule(max_pressure) only, so the     *)
(* schedule is built with the method's default max_temperature.            *)
ProtocolInit(simulation, maxP, maxT) ==
    IF ~isinstance(simulation, "Simulation") THEN [error |-> "TypeError", schedule |-> <<>>]
    ELSE IF ~isinstance(maxP, "Quantity") THEN [error |-> "TypeError", schedule |-> <<>>]
    ELSE IF ~isinstance(maxT, "Quantity") THEN [error |-> "TypeError", schedule |-> <<>>]
    ELSE [error |-> "none", schedule |-> generate_schedule(maxP, DefaultMaxTemperature)]

----------------------------------------------------------------------------
(* Inputs. *)
Simulations == {SimulationObj, None}
MaxPressures == {Number("float", 50000), Quantity(-1 * bar, "pressure"),
                 Quantity(0, "pressure"), Quantity(50000 * bar, "pressure")}
MaxTemperatures == {Number("int", 600), Quantity(500 * kelvin, "temperature"),
                    Quantity(600 * kelvin, "temperature")}
Frequencies == {Str("500"), Number("int", -1), Number("int", 0), Number("int", 500)}
StageTemperatures == {Number("int", 300), Quantity(450 * kelvin, "temperature")}
StagePressures == {None, Number("float", 1), Quantity(2 * bar, "pressure")}
StageTimes == {Quantity(1 * picosecond, "time")}
StageNames == {Str("eq")}
StageFrequencies == {Number("int", 25)}
StepSizes == {1, 2}

InitialBarostat == MonteCarloBarostat(Quantity(1 * bar, "pressure"),
                                      Quantity(300 * kelvin, "temperature"),
                                      Number("int", 25))
InitialForces == { <<OtherForce(1)>>,
                   <<OtherForce(1), InitialBarostat, OtherForce(2)>>,
                   <<InitialBarostat, OtherForce(1)>> }

(* The engine call that is going to raise: stage name and call, once. *)
NoFault == [stage |-> "", op |-> ""]
FaultPlans == {NoFault,
               [stage |-> "md1", op |-> "setTemperature"],
               [stage |-> "md3", op |-> "_set_barostat"],
               [stage |-> "md3", op |-> "step"],
               [stage |-> "md9", op |-> "setVelocitiesToTemperature"],
               [stage |-> "md21", op |-> "reinitialize"],
               [stage |-> "md21", op |-> "step"]}

EngineCalls == <<"setTemperature", "setVelocitiesToTemperature", "_set_barostat",
                 "reinitialize", "step">>

----------------------------------------------------------------------------
Init ==
    /\ forces \in InitialForces
    /\ contextForces = forces
    /\ temperature = 300 * kelvin
    /\ velocities = 300 * kelvin
    /\ currentStep = 0
    /\ stepSize \in StepSizes
    /\ fault \in FaultPlans
    /\ constructed = FALSE
    /\ max_pressure = None
    /\ max_temperature = None
    /\ schedule = <<>>
    /\ pc = "idle"
    /\ caller = ""
    /\ i = 0
    /\ step = NoStep
    /\ frequency = None
    /\ result = "none"
    /\ failedAt = ""
    /\ calls = 0
    /\ runs = 0
    /\ op = ""
    /\ args = <<>>
    /\ lifecycle = "None"
    /\ tempCalls = <<>>
    /\ stageOps = <<>>

(* TwentyOneStepProtocol(simulation, max_pressure, max_temperature) *)
Construct(simulation, maxP, maxT) ==
    /\ pc = "idle"
    /\ ~constructed
    /\ op' = "__init__"
    /\ args' = <<simulation, maxP, maxT>>
    /\ LET obj == ProtocolInit(simulation, maxP, maxT)
       IN  IF obj.error # "none"
           THEN /\ result' = obj.error
                /\ UNCHANGED <<constructed, max_pressure, max_temperature, schedule,
                               lifecycle>>
           ELSE /\ constructed' = TRUE
                /\ max_pressure' = maxP
                /\ max_temperature' = maxT
                /\ schedule' = obj.schedule
                /\ lifecycle' = "Constructed"
                /\ result' = "none"
    /\ UNCHANGED <<ctx, fault, pc, caller, i, step, frequency, failedAt, calls, runs,
                   tempCalls, stageOps>>

(* run without the check of its argument. *)
ValidFrequency_any(f) == TRUE

(* A loop that resumes at the entry an earlier call stopped at, and a loop *)
(* that goes on two entries at a time.                                     *)
FirstTask_resume(previous) == IF previous = 0 THEN 1 ELSE previous
NextTask_skip(k) == k + 2

(* run's check of its argument: isinstance(barostat_frequency, int). *)
ValidFrequency(f) == isinstance(f, "int")

(* for task in self.schedule: every run call iterates the list from its    *)
(* first entry, whatever index an earlier call stopped at, and goes from   *)
(* one entry to the next.                                                  *)
FirstTask(previous) == 1
NextTask(k) == k + 1

(* run without the check of the schedule being empty. *)
Run_unguarded(barostat_frequency) ==
    /\ pc = "idle"
    /\ constructed
    /\ calls < MaxCalls
    /\ calls' = calls + 1
    /\ op' = "run"
    /\ args' = <<barostat_frequency>>
    /\ IF ~ValidFrequency(barostat_frequency)
       THEN /\ result' = "TypeError"
            /\ UNCHANGED <<pc, caller, i, frequency, lifecycle, tempCalls, failedAt, runs>>
       ELSE /\ pc' = "for"
            /\ caller' = "protocol"
            /\ i' = FirstTask(i)
            /\ frequency' = barostat_frequency
            /\ lifecycle' = "Running"
            /\ runs' = runs + 1
            /\ tempCalls' = <<>>
            /\ failedAt' = ""
            /\ result' = "none"
    /\ UNCHANGED <<ctx, fault, constructed, max_pressure, max_temperature, schedule,
                   step, stageOps>>

(* TwentyOneStepProtocol.run(barostat_frequency), up to the for loop. *)
Run(barostat_frequency) ==
    /\ pc = "idle"
    /\ constructed
    /\ calls < MaxCalls
    /\ calls' = calls + 1
    /\ op' = "run"
    /\ args' = <<barostat_frequency>>
    /\ IF ~ValidFrequency(barostat_frequency)
       THEN /\ result' = "TypeError"
            /\ UNCHANGED <<pc, caller, i, frequency, lifecycle, tempCalls, failedAt, runs>>
       ELSE IF schedule = <<>>
       THEN /\ result' = "RuntimeError"
            /\ UNCHANGED <<pc, caller, i, frequency, lifecycle, tempCalls, failedAt, runs>>
       ELSE /\ pc' = "for"
            /\ caller' = "protocol"
            /\ i' = FirstTask(i)
            /\ frequency' = barostat_frequency
            /\ lifecycle' = "Running"
            /\ runs' = runs + 1
            /\ tempCalls' = <<>>
            /\ failedAt' = ""
            /\ result' = "none"
    /\ UNCHANGED <<ctx, fault, constructed, max_pressure, max_temperature, schedule,
                   step, stageOps>>

(* A loop that reinitializes the context without preserving its state     *)
(* before each stage, and a loop that strips the barostat before run       *)
(* returns.                                                                *)
ForTask_reset ==
    /\ pc = "for"
    /\ IF i > Len(schedule)
       THEN /\ pc' = "idle"
            /\ result' = "returned"
            /\ lifecycle' = "Completed"
            /\ UNCHANGED <<step, stageOps, failedAt, velocities>>
       ELSE LET task == schedule[i]
                s == MDStep(SimulationObj, task.temperature, task.pressure, task.time,
                            task.name, stepSize)
            IN  IF s.error # "none"
                THEN /\ pc' = "idle"
                     /\ result' = s.error
                     /\ lifecycle' = "Failed"
                     /\ failedAt' = task.name.unit
                     /\ UNCHANGED <<step, stageOps, velocities>>
                ELSE /\ pc' = "setTemperature"
                     /\ step' = s
                     /\ stageOps' = <<>>
                     /\ velocities' = 0
                     /\ UNCHANGED <<result, lifecycle, failedAt>>
    /\ UNCHANGED <<forces, contextForces, temperature, currentStep, stepSize, fault,
                   constructed, max_pressure, max_temperature, schedule,
                   caller, i, frequency, calls, runs, op, args, tempCalls>>

ForTask_cleanup ==
    /\ pc = "for"
    /\ IF i > Len(schedule)
       THEN /\ pc' = "idle"
            /\ result' = "returned"
            /\ lifecycle' = "Completed"
            /\ forces' = OtherForces(forces)
            /\ UNCHANGED <<step, stageOps, failedAt>>
       ELSE LET task == schedule[i]
                s == MDStep(SimulationObj, task.temperature, task.pressure, task.time,
                            task.name, stepSize)
            IN  IF s.error # "none"
                THEN /\ pc' = "idle"
                     /\ result' = s.error
                     /\ lifecycle' = "Failed"
                     /\ failedAt' = task.name.unit
                     /\ UNCHANGED <<step, stageOps, forces>>
                ELSE /\ pc' = "setTemperature"
                     /\ step' = s
                     /\ stageOps' = <<>>
                     /\ UNCHANGED <<result, lifecycle, failedAt, forces>>
    /\ UNCHANGED <<contextForces, temperature, velocities, currentStep, stepSize, fault,
                   constructed, max_pressure, max_temperature, schedule,
                   caller, i, frequency, calls, runs, op, args, tempCalls>>

(* for task in self.schedule: step = MDStep(simulation=self.simulation, **task) *)
(* and, past the last task, the return of run.                              *)
ForTask ==
    /\ pc = "for"
    /\ IF i > Len(schedule)
       THEN /\ pc' = "idle"
            /\ result' = "returned"
            /\ lifecycle' = "Completed"
            /\ UNCHANGED <<step, stageOps, failedAt>>
       ELSE LET task == schedule[i]
                s == MDStep(SimulationObj, task.temperature, task.pressure, task.time,
                            task.name, stepSize)
            IN  IF s.error # "none"
                THEN /\ pc' = "idle"
                     /\ result' = s.error
                     /\ lifecycle' = "Failed"
                     /\ failedAt' = task.name.unit
                     /\ UNCHANGED <<step, stageOps>>
                ELSE /\ pc' = "setTemperature"
                     /\ step' = s
                     /\ stageOps' = <<>>
                     /\ UNCHANGED <<result, lifecycle, failedAt>>
    /\ UNCHANGED <<ctx, fault, constructed, max_pressure, max_temperature, schedule,
                   caller, i, frequency, calls, runs, op, args, tempCalls>>

(* MDStep(simulation, temperature, pressure, time, name) called on its own. *)
NewStage(simulation, temp, pressure, time, name) ==
    /\ pc = "idle"
    /\ calls < MaxCalls
    /\ calls' = calls + 1
    /\ op' = "MDStep"
    /\ args' = <<simulation, temp, pressure, time, name>>
    /\ LET s == MDStep(simulation, temp, pressure, time, name, stepSize)
       IN  IF s.error # "none"
           THEN /\ result' = s.error
                /\ UNCHANGED <<pc, caller, step, stageOps>>
           ELSE /\ pc' = "stage"
                /\ caller' = "user"
                /\ step' = s
                /\ stageOps' = <<>>
                /\ result' = "none"
    /\ UNCHANGED <<ctx, fault, constructed, max_pressure, max_temperature, schedule,
                   i, frequency, failedAt, runs, lifecycle, tempCalls>>

(* step.run(frequency) called on its own: MDStep.run checks nothing. *)
RunStage(f) ==
    /\ pc = "stage"
    /\ pc' = "setTemperature"
    /\ frequency' = f
    /\ op' = "MDStep.run"
    /\ args' = <<f>>
    /\ UNCHANGED <<ctx, fault, constructed, max_pressure, max_temperature, schedule,
                   caller, i, step, result, failedAt, calls, runs, lifecycle, tempCalls,
                   stageOps>>

Faulty(call) == fault = [stage |-> step.name, op |-> call]

(* What every engine call of MDStep.run leaves alone. *)
StageFrame ==
    UNCHANGED <<stepSize, constructed, max_pressure, max_temperature, schedule,
                caller, step, frequency, calls, runs, op, args>>

(* self.simulation.integrator.setTemperature(self.temperature) *)
SetTemperature ==
    /\ pc = "setTemperature"
    /\ ~Faulty("setTemperature")
    /\ temperature' = step.temperature.value
    /\ tempCalls' = IF caller = "protocol" THEN Append(tempCalls, step.name) ELSE tempCalls
    /\ stageOps' = Append(stageOps, "setTemperature")
    /\ pc' = "setVelocitiesToTemperature"
    /\ StageFrame
    /\ UNCHANGED <<forces, contextForces, velocities, currentStep, fault, i, result,
                   failedAt, lifecycle>>

(* self.simulation.context.setVelocitiesToTemperature(self.temperature) *)
SetVelocitiesToTemperature ==
    /\ pc = "setVelocitiesToTemperature"
    /\ ~Faulty("setVelocitiesToTemperature")
    /\ velocities' = step.temperature.value
    /\ stageOps' = Append(stageOps, "setVelocitiesToTemperature")
    /\ pc' = "_set_barostat"
    /\ StageFrame
    /\ UNCHANGED <<forces, contextForces, temperature, currentStep, fault, i, result,
                   failedAt, lifecycle, tempCalls>>

(* self._set_barostat(frequency); removeForce raising ends the call. *)
SetBarostat ==
    /\ pc = "_set_barostat"
    /\ ~Faulty("_set_barostat")
    /\ LET r == set_barostat(forces, step, frequency)
       IN  /\ forces' = r.forces
           /\ stageOps' = Append(stageOps, "_set_barostat")
           /\ IF r.raised
              THEN /\ pc' = "idle"
                   /\ result' = "EngineError"
                   /\ failedAt' = IF caller = "protocol" THEN step.name ELSE failedAt
                   /\ lifecycle' = IF caller = "protocol" THEN "Failed" ELSE lifecycle
              ELSE /\ pc' = "reinitialize"
                   /\ UNCHANGED <<result, failedAt, lifecycle>>
    /\ StageFrame
    /\ UNCHANGED <<contextForces, temperature, velocities, currentStep, fault, i,
                   tempCalls>>

(* MDStep.run without its reinitialize call. *)
Reinitialize_skipped ==
    /\ pc = "reinitialize"
    /\ ~Faulty("reinitialize")
    /\ pc' = "step"
    /\ StageFrame
    /\ UNCHANGED <<forces, contextForces, temperature, velocities, currentStep, fault, i,
                   result, failedAt, lifecycle, tempCalls, stageOps>>

(* self.simulation.context.reinitialize(preserveState=True): the context   *)
(* takes up the system's force list; velocities and step counter are kept. *)
Reinitialize ==
    /\ pc = "reinitialize"
    /\ ~Faulty("reinitialize")
    /\ contextForces' = forces
    /\ stageOps' = Append(stageOps, "reinitialize")
    /\ pc' = "step"
    /\ StageFrame
    /\ UNCHANGED <<forces, temperature, velocities, currentStep, fault, i, result,
                   failedAt, lifecycle, tempCalls>>

(* A stage that works out its step count when it runs, from the step size  *)
(* of that moment.                                                         *)
Step_lazy ==
    /\ pc = "step"
    /\ ~Faulty("step")
    /\ currentStep' = currentStep + Round(step.time.value, stepSize)
    /\ stageOps' = Append(stageOps, "step")
    /\ IF caller = "protocol"
       THEN /\ pc' = "for"
            /\ i' = NextTask(i)
            /\ UNCHANGED result
       ELSE /\ pc' = "idle"
            /\ result' = "returned"
            /\ UNCHANGED i
    /\ StageFrame
    /\ UNCHANGED <<forces, contextForces, temperature, velocities, fault, failedAt,
                   lifecycle, tempCalls>>

(* self.simulation.step(self.steps), then the end of MDStep.run: back to   *)
(* the for loop, or to the caller of a stage run on its own.               *)
Step ==
    /\ pc = "step"
    /\ ~Faulty("step")
    /\ currentStep' = currentStep + step.steps
    /\ stageOps' = Append(stageOps, "step")
    /\ IF caller = "protocol"
       THEN /\ pc' = "for"
            /\ i' = NextTask(i)
            /\ UNCHANGED result
       ELSE /\ pc' = "idle"
            /\ result' = "returned"
            /\ UNCHANGED i
    /\ StageFrame
    /\ UNCHANGED <<forces, contextForces, temperature, velocities, fault, failedAt,
                   lifecycle, tempCalls>>

(* The loop of run catching the exception of a stage and going on with the *)
(* next one.                                                               *)
EngineRaises_caught ==
    /\ pc \in {EngineCalls[k] : k \in 1..Len(EngineCalls)}
    /\ Faulty(pc)
    /\ fault' = NoFault
    /\ forces' = IF pc = "_set_barostat" THEN RemoveLoop(forces, forces, 1).forces
                 ELSE forces
    /\ stageOps' = Append(stageOps, pc)
    /\ tempCalls' = IF pc = "setTemperature" /\ caller = "protocol"
                    THEN Append(tempCalls, step.name) ELSE tempCalls
    /\ IF caller = "protocol"
       THEN /\ pc' = "for"
            /\ i' = i + 1
            /\ UNCHANGED result
       ELSE /\ pc' = "idle"
            /\ result' = "EngineError"
            /\ UNCHANGED i
    /\ UNCHANGED <<failedAt, lifecycle>>
    /\ StageFrame
    /\ UNCHANGED <<contextForces, temperature, velocities, currentStep>>

(* An engine call raises: the exception leaves MDStep.run and, uncaught,   *)
(* TwentyOneStepProtocol.run.  A raising _set_barostat has removed the old *)
(* barostat and not added the new one.                                     *)
EngineRaises ==
    /\ pc \in {EngineCalls[k] : k \in 1..Len(EngineCalls)}
    /\ Faulty(pc)
    /\ fault' = NoFault
    /\ forces' = IF pc = "_set_barostat" THEN RemoveLoop(forces, forces, 1).forces
                 ELSE forces
    /\ stageOps' = Append(stageOps, pc)
    /\ tempCalls' = IF pc = "setTemperature" /\ caller = "protocol"
                    THEN Append(tempCalls, step.name) ELSE tempCalls
    /\ pc' = "idle"
    /\ result' = "EngineError"
    /\ failedAt' = IF caller = "protocol" THEN step.name ELSE failedAt
    /\ lifecycle' = IF caller = "protocol" THEN "Failed" ELSE lifecycle
    /\ StageFrame
    /\ UNCHANGED <<contextForces, temperature, velocities, currentStep, i>>

Next ==
    \/ \E simulation \in Simulations, maxP \in MaxPressures, maxT \in MaxTemperatures :
          Construct(simulation, maxP, maxT)
    \/ \E f \in Frequencies : Run(f)
    \/ ForTask
    \/ \E simulation \in Simulations, temp \in StageTemperatures,
          pressure \in StagePressures, time \in StageTimes, name \in StageNames :
          NewStage(simulation, temp, pressure, time, name)
    \/ \E f \in StageFrequencies : RunStage(f)
    \/ SetTemperature
    \/ SetVelocitiesToTemperature
    \/ SetBarostat
    \/ Reinitialize
    \/ Step
    \/ EngineRaises

Spec == Init /\ [][Next]_vars

TypeOK ==
    /\ pc \in {"idle", "for", "stage"} \cup {EngineCalls[k] : k \in 1..Len(EngineCalls)}
    /\ calls \in 0..MaxCalls
    /\ i \in 0..(Len(schedule) + 1)
    /\ runs \in 0..calls

----------------------------------------------------------------------------
(* Properties. *)

Names == <<"md1", "md2", "md3", "md4", "md5", "md6", "md7", "md8", "md9", "md10",
           "md11", "md12", "md13", "md14", "md15", "md16", "md17", "md18", "md19",
           "md20", "md21">>

InStage == pc \in {EngineCalls[k] : k \in 1..Len(EngineCalls)}

(* C1: on a context that starts with at most one MonteCarloBarostat, the   *)
(* force list holds at most one MonteCarloBarostat in every state, so      *)
(* after every stage, run alone or by the protocol, however many earlier   *)
(* stages had a pressure.                                                  *)
C1_AtMostOneBarostat == CountBarostats(forces) <= 1

(* md9, the third stage with a pressure, is over on a context that had a   *)
(* barostat between two other forces: one barostat is there.               *)
C1_Witness ==
    /\ caller = "protocol" /\ pc = "for" /\ i = 10
    /\ Len(forces) = 3 /\ CountBarostats(forces) = 1

(* C2: the setTemperature calls of a protocol run are made in schedule     *)
(* order, md1, md2, ..., none skipped or repeated, and a run that returns  *)
(* has made exactly the 21 of them.                                        *)
C2_SequentialOrder ==
    /\ Len(tempCalls) <= Len(Names)
    /\ tempCalls = SubSeq(Names, 1, Len(tempCalls))
    /\ lifecycle = "Completed" => tempCalls = Names

C2_Witness ==
    /\ lifecycle = "Completed" /\ op = "run" /\ result = "returned"
    /\ Len(tempCalls) = 21 /\ tempCalls[21] = "md21"

(* C3: when an engine call of stage k raises during a protocol run, the    *)
(* run ends in that step with the engine's error, having made the          *)
(* setTemperature calls of stages 1..k only; and from the aborted run the  *)
(* only step is a new call, so no engine call of a later stage is made.    *)
C3_AbortOnFailure ==
    [][ /\ (caller = "protocol" /\ InStage /\ Faulty(pc)) =>
              /\ pc' = "idle"
              /\ result' = "EngineError"
              /\ lifecycle' = "Failed"
              /\ failedAt' = Names[i]
              /\ tempCalls' = SubSeq(Names, 1, i)
        /\ (caller = "protocol" /\ pc = "idle" /\ result = "EngineError") =>
              /\ calls' = calls + 1
              /\ op' \in {"run", "MDStep"}
      ]_vars

(* The step of md3 raised: the run is over with two completed stages. *)
C3_Witness ==
    /\ caller = "protocol" /\ pc = "idle" /\ result = "EngineError"
    /\ failedAt = "md3" /\ tempCalls = <<"md1", "md2", "md3">>
    /\ stageOps[Len(stageOps)] = "step"

(* C4, as claimed: once the scheduler is Completed or Failed it is never   *)
(* Running again.                                                          *)
C4_TerminalStates ==
    [][(lifecycle \in {"Completed", "Failed"}) => (lifecycle' # "Running")]_vars

(* C4, amended: Completed and Failed end the run call that reached them,   *)
(* which executes no further stage; Running is entered again only by a new *)
(* run call, which starts the schedule again at md1.                       *)
C4_RerunFromStart ==
    [][(lifecycle \in {"Completed", "Failed"}) =>
          \/ /\ lifecycle' = lifecycle
             /\ caller' = "protocol" => pc' = "idle"
          \/ /\ lifecycle' = "Running"
             /\ pc = "idle" /\ op' = "run" /\ calls' = calls + 1
             /\ pc' = "for" /\ i' = 1 /\ tempCalls' = <<>>
      ]_vars

(* A second run on the same scheduler is executing md1. *)
C4_Witness ==
    /\ runs = 2 /\ lifecycle = "Running" /\ pc = "step"
    /\ step.name = "md1" /\ tempCalls = <<"md1">>

(* C5, as claimed: a run call with a zero or negative integer              *)
(* barostat_frequency is rejected with the validation error.               *)
C5_PositiveFrequencyOnly ==
    (op = "run" /\ isinstance(args[1], "int") /\ args[1].value <= 0) =>
        (result = "TypeError" /\ pc = "idle")

(* C5, amended: run rejects its argument exactly when it is not an int; an *)
(* int of any sign passes the check and the run executes stages with it.   *)
C5_IntegerFrequencyOnly ==
    op = "run" =>
        IF isinstance(args[1], "int")
        THEN /\ result # "TypeError"
             /\ lifecycle \in {"Running", "Completed", "Failed"}
             /\ frequency = args[1]
        ELSE result = "TypeError" /\ pc = "idle"

(* md3 of a run with barostat_frequency 0 has installed its barostat. *)
C5_Witness ==
    /\ op = "run" /\ args[1] = Number("int", 0)
    /\ pc = "reinitialize" /\ step.name = "md3"
    /\ \E k \in 1..Len(forces) : IsBarostat(forces[k]) /\ forces[k].frequency.value = 0

(* C6: a run call with a non-int barostat_frequency, and an MDStep         *)
(* construction with a non-Quantity temperature, end with TypeError in the *)
(* step of the call, with target temperature, velocities, force list,      *)
(* context and step counter unchanged and no stage started.                *)
C6_FailFastValidation ==
    [][ ( /\ calls' = calls + 1
          /\ \/ op' = "run" /\ ~isinstance(args'[1], "int")
             \/ op' = "MDStep" /\ ~isinstance(args'[2], "Quantity") ) =>
        ( /\ result' = "TypeError"
          /\ pc' = "idle"
          /\ UNCHANGED <<forces, contextForces, temperature, velocities, currentStep,
                         stepSize, tempCalls, stageOps, lifecycle>> )
      ]_vars

(* An MDStep with a bare number for temperature was refused on a context   *)
(* that an earlier call had advanced.                                      *)
C6_Witness ==
    /\ op = "MDStep" /\ result = "TypeError" /\ pc = "idle"
    /\ args[2] = Number("int", 300) /\ currentStep > 0

HighStages == {1, 4, 7, 10, 13, 16, 19}
T300 == Quantity(300 * kelvin, "temperature")

(* C7, as claimed: the stages md1, md4, ..., md19 have the constructor's   *)
(* max_temperature and no pressure, the other 14 stages have 300 K.        *)
C7_HighTemperatureStages ==
    constructed =>
        /\ Len(schedule) = 21
        /\ \A k \in 1..21 :
              IF k \in HighStages
              THEN schedule[k].temperature = max_temperature /\ schedule[k].pressure = None
              ELSE schedule[k].temperature = T300

(* The pressure of each stage in hundredths of max_pressure, 0 for none. *)
Fractions == <<0, 0, 2, 0, 0, 60, 0, 0, 100, 0, 0, 50, 0, 0, 10, 0, 0, 1, 0, 0, 0>>

(* C8: the pressures of the schedule are 0.02, 0.6, 1.0, 0.5, 0.1 and 0.01 *)
(* of max_pressure at md3, md6, md9, md12, md15 and md18, 1 bar at md21    *)
(* (with 300 K and 800 ps), and none at the other 14 stages.               *)
C8_PressureRamp ==
    constructed =>
        /\ Len(schedule) = 21
        /\ \A k \in 1..20 :
              IF Fractions[k] = 0 THEN schedule[k].pressure = None
              ELSE /\ isinstance(schedule[k].pressure, "Quantity")
                   /\ schedule[k].pressure.unit = max_pressure.unit
                   /\ 100 * schedule[k].pressure.value = Fractions[k] * max_pressure.value
        /\ schedule[21].pressure = Quantity(1 * bar, "pressure")
        /\ schedule[21].temperature = T300
        /\ schedule[21].time = Quantity(800 * picosecond, "time")

C8_Witness ==
    /\ constructed /\ max_pressure = Quantity(50000 * bar, "pressure")
    /\ schedule[3].pressure.value = 1000 * bar
    /\ schedule[18].pressure.value = 500 * bar

(* C9: from construction on the schedule has the 21 entries md1..md21 in   *)
(* order, and no step of a run or of a stage changes it.                   *)
C9_ScheduleFixed ==
    /\ [](constructed =>
            /\ Len(schedule) = 21
            /\ \A k \in 1..21 : schedule[k].name = Str(Names[k]))
    /\ [][constructed => schedule' = schedule]_vars

C9_Witness ==
    /\ lifecycle = "Failed" /\ failedAt = "md21" /\ pc = "idle"
    /\ Len(schedule) = 21 /\ schedule[21].name = Str("md21")

StageSpecOK(s) ==
    /\ s.temperature.value > 0
    /\ s.time.value > 0
    /\ s.pressure = None \/ s.pressure.value > 0

(* C10, as claimed: whatever max_pressure and max_temperature the          *)
(* constructor accepted, every stage of the schedule and every MDStep that *)
(* run builds has temperature > 0, duration > 0 and pressure absent or > 0.*)
C10_StageSpecInvariant ==
    /\ constructed => \A k \in 1..Len(schedule) : StageSpecOK(schedule[k])
    /\ (caller = "protocol" /\ InStage) => StageSpecOK(step)

(* C10, amended: the same, for a max_pressure whose value is positive. *)
C10_PositivePressureInvariant ==
    (constructed /\ max_pressure.value > 0) =>
        /\ \A k \in 1..Len(schedule) : StageSpecOK(schedule[k])
        /\ (caller = "protocol" /\ InStage) => StageSpecOK(step)

C10_Witness ==
    /\ constructed /\ max_pressure.value > 0
    /\ caller = "protocol" /\ pc = "step" /\ step.name = "md18"
    /\ step.pressure.value > 0

----------------------------------------------------------------------------
(* Stages run on their own, on any force list and with durations that are  *)
(* and are not whole multiples of the step size.                           *)

MaxForces == 3

SecondBarostat == MonteCarloBarostat(Quantity(2 * bar, "pressure"),
                                     Quantity(450 * kelvin, "temperature"),
                                     Number("int", 25))
ForceKinds == {OtherForce(1), OtherForce(2), InitialBarostat, SecondBarostat}
AnyForces == UNION {[1..n -> ForceKinds] : n \in 0..MaxForces}

DurationsFs == {1, 3, 5, 50 * picosecond}
LoneTimes == {Quantity(d, "time") : d \in DurationsFs}
LoneTemperatures == {Quantity(450 * kelvin, "temperature")}
LonePressures == {None, Quantity(2 * bar, "pressure")}
LoneStepSizes == {2, 4}
LoneFaults == {NoFault, [stage |-> "eq", op |-> "step"]}

InitStage ==
    /\ forces \in AnyForces
    /\ contextForces = forces
    /\ temperature = 300 * kelvin
    /\ velocities = 300 * kelvin
    /\ currentStep = 0
    /\ stepSize \in LoneStepSizes
    /\ fault \in LoneFaults
    /\ constructed = FALSE
    /\ max_pressure = None
    /\ max_temperature = None
    /\ schedule = <<>>
    /\ pc = "idle"
    /\ caller = ""
    /\ i = 0
    /\ step = NoStep
    /\ frequency = None
    /\ result = "none"
    /\ failedAt = ""
    /\ calls = 0
    /\ runs = 0
    /\ op = ""
    /\ args = <<>>
    /\ lifecycle = "None"
    /\ tempCalls = <<>>
    /\ stageOps = <<>>

NextStage ==
    \/ \E temp \in LoneTemperatures, pressure \in LonePressures, time \in LoneTimes,
          name \in StageNames :
          NewStage(SimulationObj, temp, pressure, time, name)
    \/ \E f \in StageFrequencies : RunStage(f)
    \/ SetTemperature
    \/ SetVelocitiesToTemperature
    \/ SetBarostat
    \/ Reinitialize
    \/ Step
    \/ EngineRaises

SpecStage == InitStage /\ [][NextStage]_vars

(* n is the integer nearest to d / h, the even one of the two when d / h   *)
(* lies half way between them.                                             *)
IsNearest(n, d, h) ==
    LET twice == IF 2 * (n * h - d) >= 0 THEN 2 * (n * h - d) ELSE 2 * (d - n * h)
    IN  /\ twice <= h
        /\ twice = h => n % 2 = 0

(* C11: the step count an MDStep gets at construction is round(D / h) for  *)
(* its duration D and the step size h at that moment (Python's round: the  *)
(* nearest integer, a tie to the even one), 25000 for 50 ps and 2 fs, and  *)
(* the stage's simulation.step call advances the step counter by exactly   *)
(* that count.                                                             *)
C11_StepCountRounding ==
    [][ /\ (pc = "idle" /\ pc' = "stage") =>
              /\ IsNearest(step'.steps, step'.time.value, stepSize)
              /\ (step'.time.value = 50 * picosecond /\ stepSize = 2) => step'.steps = 25000
        /\ (pc = "step" /\ ~Faulty("step")) =>
              currentStep' = currentStep + step.steps
      ]_vars

(* A stage of 5 fs at 2 fs per step, 2.5 steps, has advanced 2 steps. *)
C11_Witness ==
    /\ pc = "idle" /\ result = "returned" /\ calls = 1
    /\ step.time.value = 5 /\ stepSize = 2 /\ step.steps = 2 /\ currentStep = 2

(* C13, as claimed: _set_barostat removes every MonteCarloBarostat of the  *)
(* force list, removes no other force, and then adds one new barostat if   *)
(* the stage has a pressure.                                               *)
C13_RemovesEveryBarostat ==
    [][(pc = "_set_barostat" /\ ~Faulty("_set_barostat")) =>
          forces' = OtherForces(forces) \o
                    (IF step.pressure # None
                     THEN <<MonteCarloBarostat(step.pressure, step.temperature, frequency)>>
                     ELSE <<>>)
      ]_vars

----------------------------------------------------------------------------
(* The protocol with what its caller can do to the objects it relies on:   *)
(* empty the public schedule list between calls, and change the            *)
(* integrator's step size once a stage object exists.                      *)

ChangeStages == {"md2", "eq"}

(* protocol.schedule = [] between two calls. *)
ClearSchedule ==
    /\ pc = "idle"
    /\ constructed
    /\ schedule # <<>>
    /\ schedule' = <<>>
    /\ UNCHANGED <<ctx, fault, constructed, max_pressure, max_temperature, pc, caller,
                   i, step, frequency, result, failedAt, calls, runs, op, args,
                   lifecycle, tempCalls, stageOps>>

(* integrator.setStepSize(h), after a stage object was built and before it *)
(* is run, or while a stage is advancing.                                  *)
ChangeStepSize(h) ==
    /\ pc = "stage" \/ (pc = "step" /\ step.name \in ChangeStages)
    /\ h # stepSize
    /\ stepSize' = h
    /\ UNCHANGED <<forces, contextForces, temperature, velocities, currentStep, fault,
                   constructed, max_pressure, max_temperature, schedule, pc, caller,
                   i, step, frequency, result, failedAt, calls, runs, op, args,
                   lifecycle, tempCalls, stageOps>>

InitEnv ==
    /\ Init
    /\ forces = <<OtherForce(1), InitialBarostat, OtherForce(2)>>
    /\ fault \in {NoFault, [stage |-> "md3", op |-> "step"]}

NextEnv ==
    \/ Next
    \/ ClearSchedule
    \/ \E h \in StepSizes : ChangeStepSize(h)

SpecEnv == InitEnv /\ [][NextEnv]_vars

(* C12: a run call with an int barostat_frequency on an empty schedule     *)
(* ends with RuntimeError in the step of the call; no stage is started and *)
(* the context is unchanged.                                               *)
C12_EmptyScheduleRejected ==
    [][ ( /\ op' = "run" /\ calls' = calls + 1
          /\ isinstance(args'[1], "int")
          /\ schedule = <<>> ) =>
        ( /\ result' = "RuntimeError"
          /\ pc' = "idle"
          /\ UNCHANGED <<forces, contextForces, temperature, velocities, currentStep,
                         stepSize, tempCalls, stageOps, lifecycle, runs>> )
      ]_vars

(* The schedule was emptied after a first run and run was called again. *)
C12_Witness ==
    /\ op = "run" /\ result = "RuntimeError" /\ pc = "idle"
    /\ schedule = <<>> /\ isinstance(args[1], "int") /\ currentStep > 0

(* C17: the step count of a stage is the one worked out when its MDStep    *)
(* was built, from the step size of that moment: a later change of the     *)
(* step size leaves the stage object as it is, the stage advances by its   *)
(* own count, and each stage of a protocol run built after the change gets *)
(* its count from the new step size.                                       *)
C17_StepSizeReadAtConstruction ==
    [][ /\ stepSize' # stepSize => step' = step
        /\ (InStage /\ pc' # "idle" /\ pc' # "for") => step' = step
        /\ (pc = "step" /\ pc' # "step" /\ ~Faulty("step")) =>
              currentStep' = currentStep + step.steps
        /\ ((pc = "for" /\ pc' = "setTemperature") \/ (pc = "idle" /\ pc' = "stage")) =>
              IsNearest(step'.steps, step'.time.value, stepSize)
      ]_vars

(* The step size went from 2 fs to 1 fs while md2 was advancing: md1 and   *)
(* md2 advanced 25000 steps each, md3 was built with 50000.                *)
C17_Witness ==
    /\ caller = "protocol" /\ runs = 1 /\ calls = 1 /\ pc = "setTemperature"
    /\ step.name = "md3" /\ stepSize = 1 /\ step.steps = 50000 /\ currentStep = 50000

----------------------------------------------------------------------------
Barostats(fs) == SelectSeq(fs, IsBarostat)

(* The barostat a stage with a pressure installs with frequency f. *)
BarostatOf(s, f) == <<MonteCarloBarostat(s.pressure, s.temperature, f)>>

(* C14: in a protocol run on a context that started with at most one       *)
(* barostat, once a stage has reconciled the barostat and until the next   *)
(* stage does, the force list holds no barostat if that stage has no       *)
(* pressure, and otherwise exactly one, with that stage's pressure, that   *)
(* stage's temperature and the barostat_frequency of the run.              *)
C14_NoBarostatLeak ==
    (caller = "protocol" /\ (pc \in {"reinitialize", "step"} \/ (pc = "for" /\ i > 1))) =>
        LET s == IF pc = "for" THEN schedule[i - 1] ELSE step
        IN  Barostats(forces) = IF s.pressure = None THEN <<>> ELSE BarostatOf(s, args[1])

(* md4, without pressure, is over after md3 had installed a barostat on a  *)
(* context that began with one.                                            *)
C14_Witness ==
    /\ caller = "protocol" /\ pc = "for" /\ i = 5 /\ runs = 1 /\ calls = 1
    /\ forces = <<OtherForce(1), OtherForce(2)>>

(* C15: the engine calls of a stage are made once each in the order        *)
(* setTemperature, setVelocitiesToTemperature, _set_barostat,              *)
(* reinitialize, step; when step is about to be called the target          *)
(* temperature and the velocities are the stage's, the barostat is         *)
(* reconciled and the context holds the system's force list.               *)
C15_StageCallOrder ==
    /\ InStage =>
          \E k \in 1..Len(EngineCalls) :
              pc = EngineCalls[k] /\ stageOps = SubSeq(EngineCalls, 1, k - 1)
    /\ (pc = "for" /\ i > 1) => stageOps = EngineCalls
    /\ (caller = "user" /\ pc = "idle" /\ op = "MDStep.run" /\ result = "returned") =>
          stageOps = EngineCalls
    /\ pc = "step" =>
          /\ temperature = step.temperature.value
          /\ velocities = step.temperature.value
          /\ contextForces = forces
          /\ CountBarostats(forces) = IF step.pressure = None THEN 0 ELSE 1

C15_Witness ==
    /\ pc = "step" /\ step.name = "md6" /\ Len(stageOps) = 4
    /\ stageOps[4] = "reinitialize" /\ temperature = 300 * kelvin

(* C16: in a protocol run a stage is entered from the loop head only, the  *)
(* loop head is reached again only by the stage's step call having         *)
(* advanced all of its steps, and the loop head changes nothing of the     *)
(* context: stage k+1 starts from the context stage k ended in.            *)
C16_NoOverlap ==
    [][ /\ (caller' = "protocol" /\ pc' = "setTemperature" /\ pc # "setTemperature") =>
              /\ pc = "for"
              /\ i > 1 => (stageOps = EngineCalls /\ step.name = Names[i - 1])
              /\ step'.name = Names[i]
        /\ pc = "for" =>
              UNCHANGED <<forces, contextForces, temperature, velocities, currentStep,
                          stepSize>>
        /\ (pc' = "for" /\ pc # "for" /\ i' > 1) =>
              /\ pc = "step"
              /\ i' = i + 1
              /\ currentStep' = currentStep + step.steps
      ]_vars

(* md2 is starting right after md1 advanced its 25000 steps at 2 fs. *)
C16_Witness ==
    /\ caller = "protocol" /\ pc = "setTemperature" /\ step.name = "md2"
    /\ runs = 1 /\ calls = 1 /\ stepSize = 2 /\ currentStep = 25000
    /\ velocities = 600 * kelvin

(* C18: no step of a stage or of a protocol run removes or reorders a      *)
(* force that is not a MonteCarloBarostat.                                 *)
C18_OtherForcesKept ==
    [][OtherForces(forces') = OtherForces(forces)]_vars

(* md1 has removed the barostat that stood between two other forces. *)
C18_Witness ==
    /\ caller = "protocol" /\ pc = "for" /\ i = 2 /\ runs = 1 /\ calls = 1
    /\ forces = <<OtherForce(1), OtherForce(2)>>

(* C19: when run has returned, the target temperature is 300 K and the     *)
(* force list holds exactly one MonteCarloBarostat, of 1 bar, 300 K and    *)
(* the barostat_frequency given to run.                                    *)
C19_FinalState ==
    (op = "run" /\ pc = "idle" /\ result = "returned") =>
        /\ temperature = 300 * kelvin
        /\ Barostats(forces) = <<MonteCarloBarostat(Quantity(1 * bar, "pressure"),
                                                    Quantity(300 * kelvin, "temperature"),
                                                    args[1])>>
        /\ contextForces = forces

C19_Witness ==
    /\ op = "run" /\ pc = "idle" /\ result = "returned"
    /\ max_pressure = Quantity(0, "pressure") /\ max_temperature.value = 500 * kelvin
    /\ args[1] = Number("int", 500) /\ CountBarostats(forces) = 1

====
